---- MODULE Spec2Model ----
(***************************************************************************)
(* Model of services/caption_video_old_2.py: the caption-job pipeline      *)
(* (process_captioning), its file-based result cache and the batch runner  *)
(* (batch_process_captioning over multiprocessing.Pool.map).               *)
(*                                                                         *)
(* The pool's worker processes share nothing but the storage directory     *)
(* (STORAGE_PATH): the staging files and the <hash>_cache.json records.    *)
(* Every file-system operation and every call of an external collaborator  *)
(* is one step of the call that performs it. The pool's processes are      *)
(* interchangeable, so a call is identified by the position of its job in  *)
(* the job list, and the pool by how many calls it runs at a time.         *)
(***************************************************************************)
EXTENDS Integers, Sequences, FiniteSets, TLC

\* Longest job list handed to batch_process_captioning.
MaxJobs == 2
\* Largest number of pool processes (multiprocessing.Pool() takes cpu_count).
MaxWorkers == 2

(***************************************************************************)
(* Python values of the option list: a tagged value, so that 24, "24",     *)
(* 24.0 and True stay different.                                           *)
(***************************************************************************)
IntV(n) == [kind |-> "int", i |-> n, s |-> ""]
StrV(x) == [kind |-> "str", i |-> 0, s |-> x]
FloatV(tenths) == [kind |-> "float", i |-> tenths, s |-> ""]
BoolV(b) == [kind |-> "bool", i |-> IF b THEN 1 ELSE 0, s |-> ""]

OptItem(n, v) == [option |-> n, value |-> v]

\* The keys of FONT_PATHS: one name per .ttf file of FONTS_DIR.
FONT_PATHS == {"Arial", "Roboto"}

ACCEPTABLE_FONTS == FONT_PATHS

\* A Python dict: its keys in insertion order and the value at each key.
dict(keys, at) == [keys |-> keys, at |-> at]

\* key in d
dict_has(d, key) == key \in DOMAIN d.at

\* d.get(key, default)
dict_get(d, key, default) == IF dict_has(d, key) THEN d.at[key] ELSE default

\* {item["option"]: item["value"] for item in options}: a name keeps the place of
\* its first item and takes the value of its last one.
convert_array_to_collection(options) ==
    LET names == {options[k].option : k \in 1..Len(options)}
        firsts == {k \in 1..Len(options) : \A m \in 1..(k - 1) : options[m].option # options[k].option}
        nth(i) == CHOOSE k \in firsts : Cardinality({m \in firsts : m < k}) = i - 1
        last(n) == CHOOSE k \in 1..Len(options) :
                      /\ options[k].option = n
                      /\ \A m \in 1..Len(options) : options[m].option = n => m <= k
    IN  dict([i \in 1..Cardinality(firsts) |-> options[nth(i)].option],
             [n \in names |-> options[last(n)].value])

\* bool(v): the truth value of a scalar.
truthy(v) == IF v.kind = "str" THEN v.s # "" ELSE v.i # 0

\* isinstance(v, int): bool is a subclass of int in Python.
isinstance_int(v) == v.kind \in {"int", "bool"}

\* validate_options gone wrong: the font size is not checked.
validate_options_nosize(options) ==
    IF \E option \in {"font_name", "font_size", "primary_color"} : ~dict_has(options, option)
    THEN "Missing required option"
    ELSE IF ~(\E f \in ACCEPTABLE_FONTS : options.at["font_name"] = StrV(f))
    THEN "Invalid font name"
    ELSE "ok"

\* validate_options gone wrong: the font name is not checked.
validate_options_nofont(options) ==
    IF \E option \in {"font_name", "font_size", "primary_color"} : ~dict_has(options, option)
    THEN "Missing required option"
    ELSE IF ~isinstance_int(options.at["font_size"]) \/ options.at["font_size"].i <= 0
    THEN "Font size must be a positive integer"
    ELSE "ok"

\* validate_options: "ok", or the message of the ValueError it raises.
validate_options(options) ==
    IF \E option \in {"font_name", "font_size", "primary_color"} : ~dict_has(options, option)
    THEN "Missing required option"
    ELSE IF ~(\E f \in ACCEPTABLE_FONTS : options.at["font_name"] = StrV(f))
    THEN "Invalid font name"
    ELSE IF ~isinstance_int(options.at["font_size"]) \/ options.at["font_size"].i <= 0
    THEN "Font size must be a positive integer"
    ELSE "ok"

\* The key names of the model in ascending order (the order of Python's str).
SortedNames ==
    << "alignment", "back_color", "bold", "caption_srt", "caption_type", "encoding",
       "file_url", "font_name", "font_size", "italic", "margin_l", "margin_r",
       "margin_v", "one_word_highlight", "options", "outline", "outline_color",
       "primary_color", "shadow", "strikeout", "underline" >>

\* sorted(keys)
sorted(keys) ==
    SelectSeq(SortedNames, LAMBDA n : \E k \in 1..Len(keys) : keys[k] = n)

\* json.dumps gone wrong: sort_keys is ignored, the keys come in insertion order.
json_key_order_unsorted(d, sort_keys) == d.keys

\* json.dumps(d, sort_keys=...): the order in which the keys of d are written.
json_key_order(d, sort_keys) == IF sort_keys THEN sorted(d.keys) ELSE d.keys

\* json.dumps(d, sort_keys=...) of a dict of scalars: the text, as the sequence of
\* its "key": value members. The scalars stay tagged: 24, "24", 24.5 and true are
\* different JSON texts.
json_dumps(d, sort_keys) ==
    LET order == json_key_order(d, sort_keys)
    IN  [k \in 1..Len(order) |-> << order[k], d.at[order[k]] >>]

\* get_job_hash: the digest of the key-sorted JSON of the four inputs; the inner
\* dict is written with the same sort_keys. The digest is taken as
\* collision-free, so it is the JSON text itself.
get_job_hash(file_url, caption_srt, caption_type, options) ==
    LET job_data == dict(<< "file_url", "caption_srt", "caption_type", "options" >>,
                         [n \in {"file_url", "caption_srt", "caption_type", "options"} |->
                             CASE n = "file_url" -> file_url
                               [] n = "caption_srt" -> caption_srt
                               [] n = "caption_type" -> caption_type
                               [] n = "options" -> json_dumps(options, TRUE)])
    IN  json_dumps(job_data, TRUE)

(***************************************************************************)
(* Text. A str is the sequence of its characters, so that split, strip and *)
(* strptime work on it as they do in Python.                               *)
(***************************************************************************)
Digits == << "0", "1", "2", "3", "4", "5", "6", "7", "8", "9" >>
isdigit(c) == \E n \in 1..10 : Digits[n] = c
digit_value(c) == (CHOOSE n \in 1..10 : Digits[n] = c) - 1
Whitespace == {" ", "\t", "\n", "\r"}

NEWLINE == << "\n" >>
COMMA == << "," >>
COLON == << ":" >>
ARROW == << "-", "-", ">" >>

\* s[i:].startswith(sep), with i counted from 1
startswith_at(s, i, sep) ==
    i + Len(sep) - 1 <= Len(s) /\ SubSeq(s, i, i + Len(sep) - 1) = sep

\* sep in s
contains(s, sep) == \E i \in 1..Len(s) : startswith_at(s, i, sep)

\* s.split(sep)
RECURSIVE split(_, _)
split(s, sep) ==
    IF ~contains(s, sep)
    THEN << s >>
    ELSE LET i == CHOOSE i \in 1..Len(s) :
                     startswith_at(s, i, sep) /\ \A j \in 1..(i - 1) : ~startswith_at(s, j, sep)
         IN  << SubSeq(s, 1, i - 1) >> \o split(SubSeq(s, i + Len(sep), Len(s)), sep)

\* sep.join(parts)
RECURSIVE join(_, _)
join(sep, parts) ==
    IF parts = << >> THEN << >>
    ELSE IF Len(parts) = 1 THEN parts[1]
    ELSE parts[1] \o sep \o join(sep, Tail(parts))

\* s.strip()
strip(s) ==
    LET keep == { i \in 1..Len(s) : s[i] \notin Whitespace }
    IN  IF keep = {} THEN << >>
        ELSE SubSeq(s, CHOOSE i \in keep : \A j \in keep : i <= j,
                       CHOOSE i \in keep : \A j \in keep : j <= i)

\* re.findall(r'\S+', text): the maximal runs of non-whitespace, in order.
findall_words(text) ==
    LET starts == { i \in 1..Len(text) :
                      text[i] \notin Whitespace /\ (i = 1 \/ text[i - 1] \in Whitespace) }
        nth(n) == CHOOSE i \in starts : Cardinality({ j \in starts : j < i }) = n - 1
        stop(i) == CHOOSE e \in i..Len(text) :
                      /\ \A j \in i..e : text[j] \notin Whitespace
                      /\ (e = Len(text) \/ text[e + 1] \in Whitespace)
    IN  [n \in 1..Cardinality(starts) |-> SubSeq(text, nth(n), stop(nth(n)))]

\* int(s) of a string of 1 to maxlen decimal digits; -1 for any other string.
RECURSIVE int_of(_)
int_of(s) == IF s = << >> THEN 0 ELSE 10 * int_of(SubSeq(s, 1, Len(s) - 1)) + digit_value(s[Len(s)])
number(s, maxlen) ==
    IF Len(s) \in 1..maxlen /\ \A i \in 1..Len(s) : isdigit(s[i]) THEN int_of(s) ELSE -1

\* str(n) of an int
RECURSIVE str_of_nat(_)
str_of_nat(n) == IF n < 10 THEN << Digits[n + 1] >> ELSE str_of_nat(n \div 10) \o << Digits[(n % 10) + 1] >>
str_of_int(n) == IF n < 0 THEN << "-" >> \o str_of_nat(-n) ELSE str_of_nat(n)

\* n written with exactly width digits (%02d, %06d)
RECURSIVE zero_padded(_, _)
zero_padded(n, width) ==
    IF width = 0 THEN << >> ELSE zero_padded(n \div 10, width - 1) \o << Digits[(n % 10) + 1] >>

(***************************************************************************)
(* Times. A datetime of 1900-01-01 (the date strptime gives a time of day) *)
(* is its seconds since that midnight and its microseconds; a timedelta is *)
(* a number of microseconds (the cues of the model last seconds, not       *)
(* hours, so it stays below 2^31).                                         *)
(***************************************************************************)
SECOND == 1000000
DAY == 86400

datetime(second, microsecond) == [second |-> second, microsecond |-> microsecond]

\* dt + timedelta(microseconds=d)
datetime_add(dt, d) ==
    datetime(dt.second + (dt.microsecond + d) \div SECOND, (dt.microsecond + d) % SECOND)

\* (b - a), in microseconds
datetime_sub(b, a) == (b.second - a.second) * SECOND + (b.microsecond - a.microsecond)

\* An exception, in the place of a value.
Raised(exc) == [raised |-> exc]
Returned(v) == [raised |-> "", value |-> v]

\* datetime.strptime(s, '%H:%M:%S,%f'): the whole of s has to match; %H, %M and
\* %S are one or two digits within range, %f is one to six digits, right-padded.
strptime(s) ==
    LET hms == split(s, COLON)
        sf == IF Len(hms) = 3 THEN split(hms[3], COMMA) ELSE << >>
        H == number(hms[1], 2)
        M == number(hms[2], 2)
        S == number(sf[1], 2)
        f == number(sf[2], 6)
    IN  IF Len(hms) # 3 \/ Len(sf) # 2 THEN Raised("ValueError")
        ELSE IF H \notin 0..23 \/ M \notin 0..59 \/ S \notin 0..59 \/ f = -1 THEN Raised("ValueError")
        ELSE Returned(datetime((H * 60 + M) * 60 + S, f * 10^(6 - Len(sf[2]))))

\* dt.strftime('%H:%M:%S,%f')[:-3]: the last three of the six digits of %f are cut.
strftime_ms(dt) ==
    LET tod == dt.second % DAY
    IN  zero_padded(tod \div 3600, 2) \o COLON
        \o zero_padded((tod \div 60) % 60, 2) \o COLON
        \o zero_padded(tod % 60, 2) \o COMMA
        \o SubSeq(zero_padded(dt.microsecond, 6), 1, 3)

\* round(a / b) for b > 0, ties to even: the microseconds timedelta(seconds=x) keeps.
round_div(a, b) ==
    LET q == a \div b
        r == a % b
    IN  IF 2 * r < b THEN q
        ELSE IF 2 * r > b THEN q + 1
        ELSE IF q % 2 = 0 THEN q ELSE q + 1

\* int(a / b) for b > 0: towards zero.
trunc_div(a, b) == IF a >= 0 THEN a \div b ELSE -((-a) \div b)

HIGHLIGHT_TAG == << "{", "\\", "h", "i", "g", "h", "l", "i", "g", "h", "t", "}" >>

\* Lines 126-131: the three lines of the i-th word (i from 0) of a cue of words.
word_lines(start_time, total_duration, words, i) ==
    LET n == Len(words)
        word_start == datetime_add(start_time, round_div(i * total_duration, n))
        word_end == datetime_add(word_start, round_div(total_duration, n))
    IN  << strftime_ms(word_start) \o << " " >> \o ARROW \o << " " >> \o strftime_ms(word_end),
           HIGHLIGHT_TAG \o << "{", "\\", "k" >> \o str_of_int(trunc_div(total_duration, n * (SECOND \div 100)))
               \o << "}" >> \o words[i + 1],
           << >> >>

RECURSIVE cue_lines(_, _, _, _)
cue_lines(start_time, total_duration, words, i) ==
    IF i >= Len(words) THEN << >>
    ELSE word_lines(start_time, total_duration, words, i)
         \o cue_lines(start_time, total_duration, words, i + 1)

\* Lines 115-133: what one line of the content adds to processed_lines, or the
\* exception it raises.
process_line(line) ==
    IF strip(line) # << >> /\ contains(line, ARROW)
    THEN LET parts == split(line, ARROW)
             time_part == parts[1]
             text_part == parts[2]
             start_time == strptime(strip(time_part))
             end_time == strptime(strip(split(text_part, COMMA)[1]))
             text == strip(join(COMMA, Tail(split(text_part, COMMA))))
             words == findall_words(text)
         IN  IF Len(parts) # 2 THEN Raised("ValueError")
             ELSE IF start_time.raised # "" THEN start_time
             ELSE IF end_time.raised # "" THEN end_time
             ELSE IF Len(words) = 0 THEN Raised("ZeroDivisionError")
             ELSE Returned(cue_lines(start_time.value, datetime_sub(end_time.value, start_time.value), words, 0))
    ELSE Returned(<< line >>)

RECURSIVE process_lines(_)
process_lines(lines) ==
    IF lines = << >> THEN Returned(<< >>)
    ELSE LET first == process_line(Head(lines))
             rest == process_lines(Tail(lines))
         IN  IF first.raised # "" THEN first
             ELSE IF rest.raised # "" THEN rest
             ELSE Returned(first.value \o rest.value)

\* process_subtitle_content(content, one_word_highlight)
process_subtitle_content(content, one_word_highlight) ==
    IF ~one_word_highlight
    THEN Returned(content)
    ELSE LET processed_lines == process_lines(split(content, NEWLINE))
         IN  IF processed_lines.raised # "" THEN processed_lines
             ELSE Returned(join(NEWLINE, processed_lines.value))

(***************************************************************************)
(* The ASS style line.                                                     *)
(***************************************************************************)
\* str(v) of a scalar: 24 and "24" give the same text.
str(v) ==
    CASE v.kind = "int" -> ToString(v.i)
      [] v.kind = "str" -> v.s
      [] v.kind = "bool" -> IF v.i = 1 THEN "True" ELSE "False"
      [] v.kind = "float" -> ToString(v.i \div 10) \o "." \o ToString(v.i % 10)

\* The defaults gone wrong: every option that is left out counts as 0.
style_default_zero(key) == IntV(0)

\* The second argument of each options.get of lines 83-104.
style_default(key) ==
    CASE key = "font_name" -> StrV("Arial")
      [] key = "font_size" -> IntV(24)
      [] key = "primary_color" -> StrV("&H00FFFFFF")
      [] key \in {"outline_color", "back_color"} -> StrV("&H00000000")
      [] key \in {"bold", "italic", "underline", "strikeout"} -> IntV(0)
      [] key = "outline" -> IntV(1)
      [] key = "shadow" -> IntV(0)
      [] key = "alignment" -> IntV(2)
      [] key \in {"margin_l", "margin_r", "margin_v"} -> IntV(10)
      [] key = "encoding" -> IntV(1)
      [] key = "one_word_highlight" -> BoolV(FALSE)

\* style_options.values() of lines 81-105, in the order of the dict.
style_options(options) ==
    LET get(key) == dict_get(options, key, style_default(key))
    IN  << StrV("Default"), get("font_name"), get("font_size"), get("primary_color"),
           get("outline_color"), get("back_color"), get("bold"), get("italic"),
           get("underline"), get("strikeout"), IntV(100), IntV(100), IntV(0), IntV(0),
           IntV(1), get("outline"), get("shadow"), get("alignment"), get("margin_l"),
           get("margin_r"), get("margin_v"), get("encoding"), get("one_word_highlight") >>

\* generate_style_line: the line as the sequence of its pieces, "Style: " and the
\* texts of the values with a "," between them.
generate_style_line(options) ==
    LET values == style_options(options)
    IN  << "Style: " >> \o join(<< "," >>, [i \in 1..Len(values) |-> << str(values[i]) >>])

\* Lines 179-193: the header put before an ASS payload, "" for the other
\* dialects. Each line of the header is one piece of text; none has a "-->".
caption_style(caption_type, options) ==
    IF caption_type = "ass"
    THEN << "\n", "[Script Info]", "\n", "Title: Highlight Current Word", "\n",
            "ScriptType: v4.00+", "\n", "[V4+ Styles]", "\n",
            "Format: Name, Fontname, Fontsize, PrimaryColour, OutlineColour, BackColour, Bold, Italic, Underline, StrikeOut, ScaleX, ScaleY, Spacing, Angle, BorderStyle, Outline, Shadow, Alignment, MarginL, MarginR, MarginV, Encoding",
            "\n" >>
         \o generate_style_line(options)
         \o << "\n", "[Events]", "\n",
               "Format: Layer, Start, End, Style, Name, MarginL, MarginR, MarginV, Effect, Text",
               "\n" >>
    ELSE << >>

\* Lines 180-213: what is written to srt_path, or the exception raised before
\* anything is written. remote is caption_srt.startswith("https"); text is the
\* body of the response when it is, caption_srt itself when it is not.
subtitle_content(remote, text, caption_type, options) ==
    LET highlight == truthy(dict_get(options, "one_word_highlight", BoolV(FALSE)))
    IN  IF remote /\ caption_type \in {"srt", "vtt"}
        THEN Returned(text)
        ELSE process_subtitle_content(caption_style(caption_type, options) \o text, highlight)

(***************************************************************************)
(* Inputs.                                                                 *)
(***************************************************************************)
FileUrl == "https://example.com/video.mp4"
InlineCaption == "1\n00:00:01,000 --> 00:00:03,000\na b"
RemoteCaption == "https://example.com/captions.ass"

\* caption_srt.startswith("https")
startswith_https(caption_srt) == caption_srt = RemoteCaption

ValidOptions ==
    << OptItem("font_name", StrV("Arial")), OptItem("font_size", IntV(24)),
       OptItem("primary_color", StrV("&H00FFFFFF")) >>

HighlightOptions ==
    ValidOptions \o << OptItem("one_word_highlight", BoolV(TRUE)) >>

WithSize(v) ==
    << OptItem("font_name", StrV("Arial")), OptItem("font_size", v),
       OptItem("primary_color", StrV("&H00FFFFFF")) >>

Input(caption_srt, caption_type, options) ==
    [file_url |-> FileUrl, caption_srt |-> caption_srt,
     caption_type |-> caption_type, options |-> options]

\* The inputs of the jobs (file_url, caption_srt, caption_type, options). The
\* first three are the ones batches are built from: two fingerprints and one
\* invalid job; the others are the option lists validate_options has to judge.
Inputs ==
    << Input(InlineCaption, "srt", ValidOptions),
       Input(RemoteCaption, "ass", HighlightOptions),
       Input(InlineCaption, "srt", WithSize(IntV(0))),
       Input(InlineCaption, "srt", WithSize(IntV(-1))),
       Input(InlineCaption, "srt", WithSize(StrV("24"))),
       Input(InlineCaption, "srt", WithSize(FloatV(245))),
       Input(InlineCaption, "srt", WithSize(BoolV(TRUE))),
       Input(InlineCaption, "srt",
             << OptItem("font_size", IntV(24)), OptItem("primary_color", StrV("&H00FFFFFF")) >>),
       Input(InlineCaption, "srt",
             << OptItem("font_name", StrV("Arial")), OptItem("primary_color", StrV("&H00FFFFFF")) >>),
       Input(InlineCaption, "srt",
             << OptItem("font_name", StrV("Arial")), OptItem("font_size", IntV(24)) >>),
       Input(InlineCaption, "srt",
             << OptItem("font_name", StrV("Comic")), OptItem("font_size", IntV(24)),
                OptItem("primary_color", StrV("&H00FFFFFF")) >>),
       Input(InlineCaption, "srt", ValidOptions \o << OptItem("font_size", IntV(0)) >>),
       Input(InlineCaption, "srt", << OptItem("font_size", IntV(0)) >> \o ValidOptions) >>

BatchInputs == {1, 2, 3}

\* A job list names the input of each job by its place in Inputs; the job at
\* position k of the list has the job id k ("batch_job_<k>").
JobLists ==
    UNION { [1..n -> BatchInputs] : n \in 1..MaxJobs }
    \cup { << i >> : i \in DOMAIN Inputs }

(***************************************************************************)
(* State.                                                                  *)
(***************************************************************************)
VARIABLES
    job_list,         \* the argument of batch_process_captioning
    poolSize,         \* number of processes of the Pool
    next_task,        \* position of the next job the pool hands out
    pc,               \* pc[k]: where the call of job k is in process_captioning
    video_path,       \* video_path[k]: what download_file returned to job k's call
    output_filename,  \* output_filename[k]: what upload_to_gcs returned to it
    files,            \* staging files of STORAGE_PATH: path -> the job that wrote it
    cache,            \* the <hash>_cache.json files of STORAGE_PATH: hash -> record
    calls,            \* calls[k]: the history of job k's call
    map_success,      \* MapResult._success
    map_value,        \* MapResult._value
    number_left,      \* MapResult._number_left
    batch,            \* "running", or how batch_process_captioning ended
    call,             \* a function of the module and the arguments it is called with
    results,          \* what the calls of that function returned, one after the other
    total_frames,     \* ProgressTracker.total_frames
    current_frame,    \* ProgressTracker.current_frame
    lock,             \* ProgressTracker.lock: the thread that holds it, or Free
    thread,           \* thread[t]: where thread t is in update or get_progress
    completed,        \* the frame of the last update that has returned
    reading           \* the last two values get_progress returned

pipelinevars == << job_list, poolSize, next_task, pc, video_path, output_filename,
                   files, cache, calls, map_success, map_value, number_left, batch >>
libvars == << call, results >>
trackervars == << total_frames, current_frame, lock, thread, completed, reading >>

vars == << job_list, poolSize, next_task, pc, video_path, output_filename,
           files, cache, calls, map_success, map_value, number_left, batch,
           call, results, total_frames, current_frame, lock, thread, completed, reading >>

\* No function of the module is being called on its own.
NoCall == [fn |-> "none"]
LibIdle == call = NoCall /\ results = << >>

\* No ProgressTracker exists.
Free == -1
NoReading == << >>
TrackerIdle ==
    /\ total_frames = 0
    /\ current_frame = 0
    /\ lock = Free
    /\ thread = << >>
    /\ completed = 0
    /\ reading = NoReading

Path(stem, suffix) == [stem |-> stem, suffix |-> suffix]
NoPath == Path(0, "")

\* Local names download_file may give the file it stores under STORAGE_PATH.
VideoNames == {101, 102}

\* download_file(file_url, STORAGE_PATH): the download collaborator is given the
\* source reference and the directory, never the job id; the paths it may return.
download_file(file_url) == { Path(v, ".mp4") : v \in VideoNames }

\* subtitle_extension = '.' + caption_type
subtitle_extension(caption_type) ==
    CASE caption_type = "srt" -> ".srt"
      [] caption_type = "vtt" -> ".vtt"
      [] caption_type = "ass" -> ".ass"

\* os.path.join(STORAGE_PATH, f"{job_id}{subtitle_extension}")
srt_path(job_id, caption_type) == Path(job_id, subtitle_extension(caption_type))

\* os.path.join(STORAGE_PATH, f"{job_id}_captioned.mp4")
output_path(job_id) == Path(job_id, "_captioned.mp4")

\* Python's None.
None == [bucket |-> "", blob |-> NoPath]

\* upload_to_gcs(output_path, GCP_BUCKET_NAME): the reference of the uploaded blob.
upload_to_gcs(path) == [bucket |-> "GCP_BUCKET_NAME", blob |-> path]

Jobs == 1..Len(job_list)
Job(k) == Inputs[job_list[k]]

\* Lines 161 and 164 for each input: the options dict and the fingerprint.
InputOptions == [i \in DOMAIN Inputs |-> convert_array_to_collection(Inputs[i].options)]
InputHash ==
    [i \in DOMAIN Inputs |->
        get_job_hash(Inputs[i].file_url, Inputs[i].caption_srt, Inputs[i].caption_type,
                     InputOptions[i])]

JobOptions(k) == InputOptions[job_list[k]]
JobHash(k) == InputHash[job_list[k]]
SrtPath(k) == srt_path(k, Job(k).caption_type)

\* options.get('one_word_highlight', False)
one_word_highlight(k) ==
    truthy(dict_get(JobOptions(k), "one_word_highlight", BoolV(FALSE)))

\* Lines 219-225: the font file of the requested font, or of Arial with a warning
\* when FONT_PATHS does not have the requested font.
selected_font(options) ==
    LET font_name == dict_get(options, "font_name", StrV("Arial"))
    IN  IF \E f \in FONT_PATHS : font_name = StrV(f)
        THEN [font |-> font_name.s, warning |-> FALSE]
        ELSE [font |-> "Arial", warning |-> TRUE]

\* Lines 219-225 for each input, and for job k.
InputFont == [i \in DOMAIN Inputs |-> selected_font(InputOptions[i])]
JobFont(k) == InputFont[job_list[k]]

Ended(k) == pc[k] \in {"returned", "raised"}
Running(k) == pc[k] \notin {"queued", "returned", "raised"}

\* The staging paths job k's call holds.
StagingPaths(k) ==
    { SrtPath(k), output_path(k) } \cup (IF video_path[k] = NoPath THEN {} ELSE { video_path[k] })

\* The history of a call: what it returned or raised, the statements it ran (each
\* with whether it succeeded) and the same-fingerprint calls that had returned
\* when it started.
NewCall == [ret |-> None, err |-> "", steps |-> << >>, after |-> {}]

Init ==
    /\ job_list \in JobLists
    /\ poolSize \in 1..MaxWorkers
    /\ next_task = 1
    /\ pc = [k \in Jobs |-> "queued"]
    /\ video_path = [k \in Jobs |-> NoPath]
    /\ output_filename = [k \in Jobs |-> None]
    /\ files = << >>
    /\ cache = << >>
    /\ calls = [k \in Jobs |-> NewCall]
    /\ map_success = TRUE
    /\ map_value = [k \in Jobs |-> None]
    /\ number_left = Len(job_list)
    /\ batch = "running"
    /\ LibIdle
    /\ TrackerIdle

(***************************************************************************)
(* The end of a call: the worker hands (success, result) to the MapResult  *)
(* of pool.map and is free for the next job.                               *)
(***************************************************************************)
StepsOf(k) == calls[k].steps
Logged(k, op, ok) == [calls[k] EXCEPT !.steps = Append(@, [op |-> op, ok |-> ok])]

\* MapResultSet gone wrong: the result goes to the first free slot (completion order).
MapResultSetInCompletionOrder(value, k, result) ==
    LET free == CHOOSE m \in 1..Len(value) :
                   value[m] = None /\ \A n \in 1..(m - 1) : value[n] # None
    IN  [value EXCEPT ![free] = result]

\* MapResult._set on success: self._value[i] = result (one job per chunk, which
\* is what pool.map makes of a list of at most 4 jobs per process).
MapResultSet(value, k, result) == [value EXCEPT ![k] = result]

\* return <value> from process_captioning, in the pool's worker.
Return(k, rec, value) ==
    /\ pc' = [pc EXCEPT ![k] = "returned"]
    /\ calls' = [calls EXCEPT ![k] = [rec EXCEPT !.ret = value]]
    /\ number_left' = number_left - 1
    /\ map_value' = IF map_success THEN MapResultSet(map_value, k, value) ELSE map_value
    /\ UNCHANGED map_success

\* The except clauses gone wrong: the error is logged and not raised again, the
\* call returns None.
RaiseLoggedOnly(k, rec, err) == Return(k, rec, None)

\* The except clauses of process_captioning (lines 301-312): log, then re-raise
\* to the worker; MapResult keeps the first exception only.
Raise(k, rec, err) ==
    /\ pc' = [pc EXCEPT ![k] = "raised"]
    /\ calls' = [calls EXCEPT ![k] = [rec EXCEPT !.err = err]]
    /\ number_left' = number_left - 1
    /\ map_success' = FALSE
    /\ map_value' = IF map_success THEN [exc |-> err, job |-> k] ELSE map_value

\* NextPc gone wrong: the cache entry is written before the upload.
NextPcCacheBeforeUpload(op) ==
    CASE op = "download"   -> "subtitle"
      [] op = "subtitle"   -> "probe"
      [] op = "probe"      -> "render"
      [] op = "render"     -> "cache_open"
      [] op = "cache_open" -> "cache_dump"
      [] op = "cache_dump" -> "upload"
      [] op = "upload"     -> "cleanup"
      [] op = "cleanup"    -> "return"

\* NextPc gone wrong: the staging files are removed before the upload.
NextPcCleanupBeforeUpload(op) ==
    CASE op = "download"   -> "subtitle"
      [] op = "subtitle"   -> "probe"
      [] op = "probe"      -> "render"
      [] op = "render"     -> "cleanup"
      [] op = "cleanup"    -> "upload"
      [] op = "upload"     -> "cache_open"
      [] op = "cache_open" -> "cache_dump"
      [] op = "cache_dump" -> "return"

\* The order of the statements of process_captioning after a cache miss.
NextPc(op) ==
    CASE op = "download"   -> "subtitle"
      [] op = "subtitle"   -> "probe"
      [] op = "probe"      -> "render"
      [] op = "render"     -> "upload"
      [] op = "upload"     -> "cleanup"
      [] op = "cleanup"    -> "cache_open"
      [] op = "cache_open" -> "cache_dump"
      [] op = "cache_dump" -> "return"

\* Statement op of job k's call succeeded: go on with the next one, or return
\* output_filename.
Proceed(k, rec, op) ==
    IF NextPc(op) = "return"
    THEN Return(k, rec, output_filename'[k])
    ELSE /\ pc' = [pc EXCEPT ![k] = NextPc(op)]
         /\ calls' = [calls EXCEPT ![k] = rec]
         /\ UNCHANGED << map_success, map_value, number_left >>

At(k, where) == k \in Jobs /\ batch = "running" /\ pc[k] = where

Remove(f, path) == [q \in (DOMAIN f) \ {path} |-> f[q]]
Write(f, path, k) == [q \in (DOMAIN f) \cup {path} |-> IF q = path THEN k ELSE f[q]]

\* The jobs with k's fingerprint whose call had returned when job k's call starts.
ReturnedBefore(k) == { m \in Jobs : pc[m] = "returned" /\ JobHash(m) = JobHash(k) }

\* A free pool process takes the next job of the list and calls process_captioning.
TakeTask(k) ==
    /\ At(k, "queued")
    /\ k = next_task
    /\ Cardinality({ m \in Jobs : Running(m) }) < poolSize
    /\ next_task' = next_task + 1
    /\ pc' = [pc EXCEPT ![k] = "validate"]
    /\ calls' = [calls EXCEPT ![k].after = ReturnedBefore(k)]
    /\ UNCHANGED << libvars, trackervars, job_list, poolSize, video_path, output_filename, files, cache,
                    map_success, map_value, number_left, batch >>

\* Lines 161-162: convert the option list, validate it.
Validate(k) ==
    /\ At(k, "validate")
    /\ IF validate_options(JobOptions(k)) = "ok"
       THEN /\ pc' = [pc EXCEPT ![k] = "lookup"]
            /\ calls' = [calls EXCEPT ![k] = Logged(k, "validate", TRUE)]
            /\ UNCHANGED << map_success, map_value, number_left >>
       ELSE Raise(k, Logged(k, "validate", FALSE), "ValueError")
    /\ UNCHANGED << libvars, trackervars, job_list, poolSize, next_task, video_path, output_filename,
                    files, cache, batch >>

\* os_path_exists gone wrong: the lookup never finds the record.
os_path_exists_never(h) == FALSE

\* os.path.exists(cache_path): the file is there from the moment it is opened for writing.
os_path_exists(h) == h \in DOMAIN cache

\* Lines 164-167: the fingerprint, and whether its cache file exists.
Lookup(k) ==
    /\ At(k, "lookup")
    /\ pc' = [pc EXCEPT ![k] = IF os_path_exists(JobHash(k)) THEN "load" ELSE "download"]
    /\ calls' = [calls EXCEPT ![k] = Logged(k, "lookup", os_path_exists(JobHash(k)))]
    /\ UNCHANGED << libvars, trackervars, job_list, poolSize, next_task, video_path, output_filename,
                    files, cache, map_success, map_value, number_left, batch >>

\* Lines 168-171: json.load of the cache file. A file that was opened for writing
\* and not yet written is empty: json.load raises JSONDecodeError, a ValueError.
Load(k) ==
    /\ At(k, "load")
    /\ IF cache[JobHash(k)].state = "complete"
       THEN Return(k, Logged(k, "load", TRUE), cache[JobHash(k)].output_filename)
       ELSE Raise(k, Logged(k, "load", FALSE), "JSONDecodeError")
    /\ UNCHANGED << libvars, trackervars, job_list, poolSize, next_task, video_path, output_filename,
                    files, cache, batch >>

\* Line 174: download_file stores the source video under a path of its choosing.
Download(k) ==
    /\ At(k, "download")
    /\ \E ok \in BOOLEAN, path \in download_file(Job(k).file_url) :
          IF ok
          THEN /\ files' = Write(files, path, k)
               /\ video_path' = [video_path EXCEPT ![k] = path]
               /\ Proceed(k, Logged(k, "download", TRUE), "download")
          ELSE /\ Raise(k, Logged(k, "download", FALSE), "DownloadError")
               /\ UNCHANGED << files, video_path >>
    /\ UNCHANGED << libvars, trackervars, job_list, poolSize, next_task, output_filename, cache, batch >>

\* process_subtitle_content is applied unless the payload is remote and the
\* dialect is srt or vtt (lines 200-202 write the response body as it came).
Processed(k) ==
    ~(startswith_https(Job(k).caption_srt) /\ Job(k).caption_type \in {"srt", "vtt"})

\* Lines 177-214: fetch a remote payload, expand it, write the subtitle file.
\* requests.get may fail; process_subtitle_content raises ValueError on a payload
\* with a timing line when word highlight is on.
Subtitle(k) ==
    /\ At(k, "subtitle")
    /\ LET remote == startswith_https(Job(k).caption_srt)
           mayRaise == Processed(k) /\ one_word_highlight(k)
       IN  \E fetched \in (IF remote THEN BOOLEAN ELSE {TRUE}),
              expanded \in (IF mayRaise THEN BOOLEAN ELSE {TRUE}) :
              LET rec == IF remote THEN Logged(k, "fetch", fetched) ELSE calls[k]
                  recw(ok) == [rec EXCEPT !.steps = Append(@, [op |-> "subtitle", ok |-> ok])]
              IN  IF ~fetched
                  THEN /\ Raise(k, rec, "RequestException")
                       /\ UNCHANGED files
                  ELSE IF ~expanded
                  THEN /\ Raise(k, recw(FALSE), "ValueError")
                       /\ UNCHANGED files
                  ELSE /\ files' = Write(files, SrtPath(k), k)
                       /\ Proceed(k, recw(TRUE), "subtitle")
    /\ UNCHANGED << libvars, trackervars, job_list, poolSize, next_task, video_path, output_filename, cache, batch >>

\* Lines 265-267: ffmpeg.probe of the downloaded video.
Probe(k) ==
    /\ At(k, "probe")
    /\ \E ok \in BOOLEAN :
          IF ok /\ video_path[k] \in DOMAIN files
          THEN Proceed(k, Logged(k, "probe", TRUE), "probe")
          ELSE Raise(k, Logged(k, "probe", FALSE), "ffmpeg.Error")
    /\ UNCHANGED << libvars, trackervars, job_list, poolSize, next_task, video_path, output_filename,
                    files, cache, batch >>

\* Lines 273-287: the renderer writes output_path; a failed run may leave a
\* partial output file behind.
Render(k) ==
    /\ At(k, "render")
    /\ \E ok \in BOOLEAN, partial \in BOOLEAN :
          IF ok /\ { video_path[k], SrtPath(k) } \subseteq DOMAIN files
          THEN /\ files' = Write(files, output_path(k), k)
               /\ Proceed(k, Logged(k, "render", TRUE), "render")
          ELSE /\ files' = IF partial THEN Write(files, output_path(k), k) ELSE files
               /\ Raise(k, Logged(k, "render", FALSE), "ffmpeg.Error")
    /\ UNCHANGED << libvars, trackervars, job_list, poolSize, next_task, video_path, output_filename, cache, batch >>

\* Line 289: upload_to_gcs of the rendered file.
Upload(k) ==
    /\ At(k, "upload")
    /\ \E ok \in BOOLEAN :
          IF ok /\ output_path(k) \in DOMAIN files
          THEN /\ output_filename' = [output_filename EXCEPT ![k] = upload_to_gcs(output_path(k))]
               /\ Proceed(k, Logged(k, "upload", TRUE), "upload")
          ELSE /\ Raise(k, Logged(k, "upload", FALSE), "StorageError")
               /\ UNCHANGED output_filename
    /\ UNCHANGED << libvars, trackervars, job_list, poolSize, next_task, video_path, files, cache, batch >>

\* Lines 292-295: os.remove of the video, the subtitle file and the output, in
\* that order; os.remove raises FileNotFoundError when the file is gone, and the
\* files after it stay. The three paths are removed in one step: the subtitle
\* and output paths carry the job id, so no other call reads or writes them.
Cleanup(k) ==
    /\ At(k, "cleanup")
    /\ UNCHANGED << libvars, trackervars, job_list, poolSize, next_task, video_path, output_filename, cache, batch >>
    /\ LET rm(log, f, op, path) ==
               IF path \in DOMAIN f
               THEN [log |-> Append(log, [op |-> op, ok |-> TRUE]), files |-> Remove(f, path), ok |-> TRUE]
               ELSE [log |-> Append(log, [op |-> op, ok |-> FALSE]), files |-> f, ok |-> FALSE]
           r1 == rm(StepsOf(k), files, "rm_video", video_path[k])
           r2 == IF r1.ok THEN rm(r1.log, r1.files, "rm_srt", SrtPath(k)) ELSE r1
           r3 == IF r2.ok THEN rm(r2.log, r2.files, "rm_output", output_path(k)) ELSE r2
       IN  /\ files' = r3.files
           /\ IF r3.ok
              THEN Proceed(k, [calls[k] EXCEPT !.steps = r3.log], "cleanup")
              ELSE Raise(k, [calls[k] EXCEPT !.steps = r3.log], "FileNotFoundError")

\* Line 297: open(cache_path, 'w') creates or truncates the file, or fails.
CacheOpen(k) ==
    /\ At(k, "cache_open")
    /\ \E ok \in BOOLEAN :
          IF ok
          THEN /\ cache' = [g \in (DOMAIN cache) \cup {JobHash(k)} |->
                               IF g = JobHash(k)
                               THEN [state |-> "open", output_filename |-> None]
                               ELSE cache[g]]
               /\ Proceed(k, Logged(k, "cache_open", TRUE), "cache_open")
          ELSE /\ Raise(k, Logged(k, "cache_open", FALSE), "OSError")
               /\ UNCHANGED cache
    /\ UNCHANGED << libvars, trackervars, job_list, poolSize, next_task, video_path, output_filename, files, batch >>

\* Lines 298-300: json.dump, close, return output_filename.
CacheDump(k) ==
    /\ At(k, "cache_dump")
    /\ cache' = [cache EXCEPT ![JobHash(k)] =
                    [state |-> "complete", output_filename |-> output_filename[k]]]
    /\ UNCHANGED << libvars, trackervars, job_list, poolSize, next_task, video_path, output_filename, files, batch >>
    /\ Proceed(k, Logged(k, "cache_dump", TRUE), "cache_dump")

\* map_get gone wrong: the list is returned whatever the jobs did.
map_get_always_returns(success) == "returned"

\* MapResult.get: the value, or the stored exception raised.
map_get(success) == IF success THEN "returned" ELSE "raised"

\* Lines 322-324: pool.map returns once every job is done; the pool is closed.
MapGet ==
    /\ batch = "running"
    /\ number_left = 0
    /\ batch' = map_get(map_success)
    /\ UNCHANGED << libvars, trackervars, job_list, poolSize, next_task, pc, video_path, output_filename,
                    files, cache, calls, map_success, map_value, number_left >>

Next ==
    \/ \E k \in 1..MaxJobs :
          \/ TakeTask(k) \/ Validate(k) \/ Lookup(k) \/ Load(k) \/ Download(k)
          \/ Subtitle(k) \/ Probe(k) \/ Render(k) \/ Upload(k)
          \/ Cleanup(k) \/ CacheOpen(k) \/ CacheDump(k)
    \/ MapGet

Spec == Init /\ [][Next]_vars

(***************************************************************************)
(* The functions of the module called on their own: a call is drawn from   *)
(* the arguments below and applied; what it returns is kept in results.    *)
(***************************************************************************)
\* Most cues of a subtitle payload, most words of a cue.
MaxCues == 2
MaxWords == 2

\* No job list is being processed.
PipelineIdle ==
    /\ job_list = << >>
    /\ poolSize = 1
    /\ next_task = 1
    /\ pc = << >>
    /\ video_path = << >>
    /\ output_filename = << >>
    /\ files = << >>
    /\ cache = << >>
    /\ calls = << >>
    /\ map_success = TRUE
    /\ map_value = << >>
    /\ number_left = 0
    /\ batch = "none"

Letters == << "a", "b", "c", "d" >>

\* The text of a cue of n words: "a b" for two.
cue_text(n) == join(<< " " >>, [i \in 1..n |-> << Letters[i] >>])

\* HH:MM:SS,mmm of a time of day given in milliseconds.
srt_timestamp(ms) ==
    zero_padded(ms \div 3600000, 2) \o COLON \o zero_padded((ms \div 60000) % 60, 2) \o COLON
    \o zero_padded((ms \div 1000) % 60, 2) \o COMMA \o zero_padded(ms % 1000, 3)

timing_line(start, end) ==
    srt_timestamp(start) \o << " " >> \o ARROW \o << " " >> \o srt_timestamp(end)

\* A cue: its start and end in milliseconds and the number of words of its text.
Cue(start, end, words) == [start |-> start, end |-> end, words |-> words]
Cues == { Cue(1000, 3000, n) : n \in 0..MaxWords } \cup { Cue(59500, 61000, n) : n \in 0..MaxWords }
Tracks == UNION { [1..n -> Cues] : n \in 0..MaxCues }

\* A track as an SRT payload: for each cue its number, its timing line, its text
\* and an empty line.
RECURSIVE srt_lines(_, _)
srt_lines(track, j) ==
    IF j > Len(track) THEN << >>
    ELSE << str_of_int(j), timing_line(track[j].start, track[j].end), cue_text(track[j].words), << >> >>
         \o srt_lines(track, j + 1)

\* A track with each cue on one line: the timing, a comma and the text.
cue_per_line(track) ==
    [j \in 1..Len(track) |->
        timing_line(track[j].start, track[j].end) \o COMMA \o cue_text(track[j].words)]

payload(track, layout) ==
    join(NEWLINE, IF layout = "srt" THEN srt_lines(track, 1) ELSE cue_per_line(track))

ExpanderCalls ==
    { [fn |-> "process_subtitle_content", track |-> t, layout |-> l,
       content |-> payload(t, l), one_word_highlight |-> h] :
         t \in Tracks, l \in {"srt", "line"}, h \in BOOLEAN }

\* Longest option list of a job whose fingerprint is taken.
MaxOptions == 3

\* Items an option list is made of; two of them give the font size.
OptionItems ==
    { OptItem("font_name", StrV("Arial")), OptItem("font_size", IntV(24)),
      OptItem("font_size", IntV(12)), OptItem("primary_color", StrV("&H00FFFFFF")) }

\* The option lists of at most MaxOptions items, no item twice.
OptionLists ==
    UNION { { o \in [1..n -> OptionItems] : \A i \in 1..n : \A j \in 1..n : o[i] = o[j] => i = j } :
            n \in 0..MaxOptions }

\* Two jobs with the same source, payload and dialect, each with its option list.
HashCalls ==
    { [fn |-> "get_job_hash",
       jobs |-> << Input(InlineCaption, "srt", a), Input(InlineCaption, "srt", b) >>] :
         a \in OptionLists, b \in OptionLists }

\* Most options given to generate_style_line.
MaxStyleKeys == 2

\* The options generate_style_line reads and a value for each that is not its default.
StyleKeys ==
    { "font_name", "font_size", "primary_color", "outline_color", "back_color", "bold",
      "italic", "underline", "strikeout", "outline", "shadow", "alignment", "margin_l",
      "margin_r", "margin_v", "encoding", "one_word_highlight" }

StyleValue(key) ==
    CASE key = "font_name" -> StrV("Roboto")
      [] key = "font_size" -> IntV(32)
      [] key = "primary_color" -> StrV("&H0000FFFF")
      [] key = "outline_color" -> StrV("&H00FF0000")
      [] key = "back_color" -> StrV("&H80000000")
      [] key \in {"bold", "italic", "underline", "strikeout"} -> IntV(1)
      [] key = "outline" -> IntV(3)
      [] key = "shadow" -> IntV(2)
      [] key = "alignment" -> IntV(5)
      [] key = "margin_l" -> IntV(20)
      [] key = "margin_r" -> IntV(30)
      [] key = "margin_v" -> IntV(40)
      [] key = "encoding" -> IntV(0)
      [] key = "one_word_highlight" -> BoolV(TRUE)

StyleCalls ==
    { [fn |-> "generate_style_line",
       options |-> dict(sorted(SelectSeq(SortedNames, LAMBDA n : n \in given)),
                        [n \in given |-> StyleValue(n)])] :
         given \in { g \in SUBSET StyleKeys : Cardinality(g) <= MaxStyleKeys } }

\* The staging of a payload: inline or remote, in each dialect, with and without
\* word highlight.
StagingCalls ==
    { [fn |-> "subtitle_content", remote |-> r, text |-> payload(t, "srt"),
       caption_type |-> c,
       options |-> convert_array_to_collection(IF h THEN HighlightOptions ELSE ValidOptions)] :
         r \in BOOLEAN, t \in Tracks, c \in {"srt", "vtt", "ass"}, h \in BOOLEAN }

LibCalls == ExpanderCalls \cup HashCalls \cup StyleCalls \cup StagingCalls

LibInit ==
    /\ call \in LibCalls
    /\ results = << >>
    /\ PipelineIdle
    /\ TrackerIdle

\* process_subtitle_content(content, one_word_highlight) is called.
Expand ==
    /\ call.fn = "process_subtitle_content"
    /\ results = << >>
    /\ results' = << process_subtitle_content(call.content, call.one_word_highlight) >>
    /\ UNCHANGED << call, pipelinevars, trackervars >>

\* Lines 161 and 164 for the next of the two jobs: the option list is converted
\* and the fingerprint of the job is taken.
Fingerprint ==
    /\ call.fn = "get_job_hash"
    /\ Len(results) < Len(call.jobs)
    /\ LET job == call.jobs[Len(results) + 1]
       IN  results' = Append(results,
                             get_job_hash(job.file_url, job.caption_srt, job.caption_type,
                                          convert_array_to_collection(job.options)))
    /\ UNCHANGED << call, pipelinevars, trackervars >>

\* generate_style_line(options) is called, and then called again.
StyleLine ==
    /\ call.fn = "generate_style_line"
    /\ Len(results) < 2
    /\ results' = Append(results, generate_style_line(call.options))
    /\ UNCHANGED << call, pipelinevars, trackervars >>

\* Lines 177-214: the subtitle file of a job is staged.
Stage ==
    /\ call.fn = "subtitle_content"
    /\ results = << >>
    /\ results' = << subtitle_content(call.remote, call.text, call.caption_type, call.options) >>
    /\ UNCHANGED << call, pipelinevars, trackervars >>

LibNext == Expand \/ Fingerprint \/ StyleLine \/ Stage

LibSpec == LibInit /\ [][LibNext]_vars

(***************************************************************************)
(* ProgressTracker: the thread of the renderer's callback runs on_progress *)
(* (update, then get_progress) with frame counts that never go down, and   *)
(* reporting threads call get_progress.                                    *)
(***************************************************************************)
\* Largest frame count (of the video, and reported by the renderer).
MaxFrame == 2
\* Number of reporting threads.
MaxReaders == 2

Renderer == 0
Threads == 0..MaxReaders

\* threading.Lock gone wrong: acquire never waits.
lock_always_free(l) == TRUE

\* with self.lock: the lock can be taken when no thread holds it.
lock_free(l) == l = Free

\* (self.current_frame / self.total_frames) * 100, as the fraction it is.
percent(frame, total) ==
    IF total = 0 THEN Raised("ZeroDivisionError")
    ELSE Returned([num |-> frame * 100, den |-> total])

NoValue == Raised("")

TrackerInit ==
    /\ total_frames \in 0..MaxFrame
    /\ current_frame = 0
    /\ lock = Free
    /\ thread = [t \in Threads |-> [pc |-> "idle", frame |-> 0, value |-> NoValue]]
    /\ completed = 0
    /\ reading = NoReading
    /\ PipelineIdle
    /\ LibIdle

\* Line 270, 42: on_progress(frame) calls update(frame), which takes the lock.
UpdateAcquire(t) ==
    /\ t = Renderer
    /\ thread[t].pc = "idle"
    /\ lock_free(lock)
    /\ \E frame \in thread[t].frame..MaxFrame :
          thread' = [thread EXCEPT ![t] = [pc |-> "update_locked", frame |-> frame, value |-> NoValue]]
    /\ lock' = t
    /\ UNCHANGED << total_frames, current_frame, completed, reading, pipelinevars, libvars >>

\* Line 43: self.current_frame = frame
UpdateAssign(t) ==
    /\ thread[t].pc = "update_locked"
    /\ current_frame' = thread[t].frame
    /\ thread' = [thread EXCEPT ![t].pc = "update_assigned"]
    /\ UNCHANGED << total_frames, lock, completed, reading, pipelinevars, libvars >>

\* The end of the with of line 42: the lock is released and update returns.
UpdateRelease(t) ==
    /\ thread[t].pc = "update_assigned"
    /\ lock' = Free
    /\ completed' = thread[t].frame
    /\ thread' = [thread EXCEPT ![t].pc = "updated"]
    /\ UNCHANGED << total_frames, current_frame, reading, pipelinevars, libvars >>

\* Line 46: get_progress takes the lock (in on_progress after update, line 271, or
\* in a reporting thread).
GetAcquire(t) ==
    /\ thread[t].pc = IF t = Renderer THEN "updated" ELSE "idle"
    /\ lock_free(lock)
    /\ lock' = t
    /\ thread' = [thread EXCEPT ![t].pc = "get_locked"]
    /\ UNCHANGED << total_frames, current_frame, completed, reading, pipelinevars, libvars >>

\* Line 47: the value of the return expression.
GetEvaluate(t) ==
    /\ thread[t].pc = "get_locked"
    /\ thread' = [thread EXCEPT ![t].pc = "get_evaluated",
                                ![t].value = percent(current_frame, total_frames)]
    /\ UNCHANGED << total_frames, current_frame, lock, completed, reading, pipelinevars, libvars >>

\* The end of the with of line 46: the lock is released and get_progress returns
\* the value (or raises).
GetRelease(t) ==
    /\ thread[t].pc = "get_evaluated"
    /\ lock' = Free
    /\ reading' = IF reading = NoReading THEN << thread[t].value >>
                  ELSE << reading[Len(reading)], thread[t].value >>
    /\ thread' = [thread EXCEPT ![t].pc = "idle"]
    /\ UNCHANGED << total_frames, current_frame, completed, pipelinevars, libvars >>

TrackerNext ==
    \E t \in Threads :
        \/ UpdateAcquire(t) \/ UpdateAssign(t) \/ UpdateRelease(t)
        \/ GetAcquire(t) \/ GetEvaluate(t) \/ GetRelease(t)

TrackerSpec == TrackerInit /\ [][TrackerNext]_vars


(***************************************************************************)
(* Properties.                                                             *)
(***************************************************************************)
Count(k, op) == Cardinality({ n \in 1..Len(StepsOf(k)) : StepsOf(k)[n].op = op })
Succeeded(k, op) == \E n \in 1..Len(StepsOf(k)) : StepsOf(k)[n] = [op |-> op, ok |-> TRUE]
Failed(k, op) == \E n \in 1..Len(StepsOf(k)) : StepsOf(k)[n] = [op |-> op, ok |-> FALSE]
Collaborators == {"download", "fetch", "probe", "render", "upload"}

\* Job k's call is the second of two calls with its fingerprint, made one after
\* the other: job m's call, the only earlier one, had returned when it started.
Follows(k, m) ==
    /\ m \in calls[k].after
    /\ { j \in 1..(k - 1) : JobHash(j) = JobHash(k) } = {m}

\* C1: cache idempotence. When process_captioning is called twice with the same
\* fingerprint, one call after the other, and the first call succeeds, the renderer
\* runs at most once over both calls and the second call returns the cached
\* reference (the one the first call returned) without download, fetch, probe,
\* render or upload.
C1_CacheIdempotence ==
    \A k \in Jobs : \A m \in Jobs :
        Follows(k, m) =>
            /\ \A op \in Collaborators : Count(k, op) = 0
            /\ Count(m, "render") + Count(k, "render") <= 1
            /\ pc[k] # "raised"
            /\ pc[k] = "returned" => calls[k].ret = calls[m].ret

C1_Witness ==
    \E k \in Jobs : \E m \in Jobs :
        Follows(k, m) /\ pc[k] = "returned" /\ Count(m, "render") = 1

\* C2: cleanup invariant. After a call has returned or raised, no staging file
\* that its job wrote (source video, subtitle file, rendered output) remains in
\* the storage directory.
C2_CleanupInvariant ==
    \A k \in Jobs : Ended(k) => \A p \in DOMAIN files : files[p] # k

C4_CacheReadAtomic ==
    \A k \in Jobs : ~Failed(k, "load")

\* C5: a cache entry, once created, is never mutated: no step rewrites a complete
\* entry or changes the reference it holds.
C5_CacheEntryNeverMutated ==
    [][\A h \in DOMAIN cache : cache[h].state = "complete" => cache'[h] = cache[h]]_vars

\* C6: cache failures degrade gracefully. A call whose cache read failed goes on
\* as on a miss, and a call whose cache write failed after the upload still
\* returns the uploaded reference: neither failure makes the call raise.
C6_CacheFailuresDegrade ==
    \A k \in Jobs :
        /\ Failed(k, "load") => pc[k] # "raised"
        /\ Failed(k, "cache_open") =>
              pc[k] = "returned" /\ calls[k].ret = upload_to_gcs(output_path(k))

\* The options the validation boundary is about: a required key is missing, the
\* font size is zero, negative or not an integer (True and False are integers in
\* Python), or the font is not in the allow-list.
BadOptions(k) ==
    LET o == JobOptions(k).at
    IN  \/ "font_name" \notin DOMAIN o
        \/ "font_size" \notin DOMAIN o
        \/ "primary_color" \notin DOMAIN o
        \/ o["font_size"].kind \notin {"int", "bool"}
        \/ o["font_size"].i < 1
        \/ o["font_name"].kind # "str"
        \/ o["font_name"].s \notin FONT_PATHS

\* C7: validation boundary. A job with such options fails with a validation
\* error before any cache lookup, download, fetch, probe, render, upload or file
\* write: its call runs no statement but the validation, and no file is its own.
C7_ValidationBoundary ==
    \A k \in Jobs :
        BadOptions(k) =>
            /\ pc[k] \in {"queued", "validate", "raised"}
            /\ \A n \in 1..Len(StepsOf(k)) : StepsOf(k)[n] = [op |-> "validate", ok |-> FALSE]
            /\ pc[k] = "raised" => calls[k].err = "ValueError"
            /\ video_path[k] = NoPath
            /\ \A p \in DOMAIN files : files[p] # k

C7_Witness ==
    \E k \in Jobs : BadOptions(k) /\ pc[k] = "raised" /\ JobOptions(k).at["font_size"] = IntV(0)

\* C8, as claimed: when one job of a batch fails, every other job still runs to
\* its own outcome and its result is reported to the caller of the batch.
C8_BatchReportsOtherJobs ==
    batch # "running" =>
        \A k \in Jobs :
            /\ Ended(k)
            /\ pc[k] = "returned" => batch = "returned" /\ map_value[k] = calls[k].ret

\* C8, amended: when one job of a batch fails, every other job still runs to its
\* own outcome, but batch_process_captioning then raises the exception of the
\* first job that failed and returns no result list.
C8_BatchRaisesFirstFailure ==
    batch # "running" =>
        /\ \A k \in Jobs : Ended(k)
        /\ (\E k \in Jobs : pc[k] = "raised") =>
              /\ batch = "raised"
              /\ map_value.job \in Jobs
              /\ pc[map_value.job] = "raised"
              /\ map_value.exc = calls[map_value.job].err

C8_Witness ==
    /\ batch = "raised"
    /\ \E k \in Jobs : pc[k] = "returned"
    /\ \E k \in Jobs : pc[k] = "raised" /\ Succeeded(k, "validate")

\* C9: batch ordering. Whatever the order in which the calls end, the result
\* list has the length of the job list and its k-th element is the result of the
\* k-th job: while no job has failed, slot k holds job k's result as soon as its
\* call has returned, and when every job has succeeded that list is returned.
C9_BatchOrdering ==
    /\ map_success =>
          /\ Len(map_value) = Len(job_list)
          /\ \A k \in Jobs :
                map_value[k] = IF pc[k] = "returned" THEN calls[k].ret ELSE None
          /\ \A k \in Jobs :
                pc[k] = "returned" /\ Succeeded(k, "upload") =>
                    map_value[k] = upload_to_gcs(output_path(k))
    /\ batch # "running" /\ (\A k \in Jobs : pc[k] = "returned") => batch = "returned"

\* The second job's call has returned while the first job's call is still running.
C9_Witness ==
    /\ Len(job_list) >= 2
    /\ pc[2] = "returned" /\ Succeeded(2, "upload")
    /\ Running(1) /\ Succeeded(1, "download")
    /\ map_success

\* C10: staging-path isolation. Two calls running at the same time for jobs with
\* distinct job ids hold disjoint staging paths (source video, subtitle file,
\* rendered output).
C10_StagingPathsDisjoint ==
    \A k \in Jobs : \A m \in Jobs :
        k # m /\ Running(k) /\ Running(m) => StagingPaths(k) \cap StagingPaths(m) = {}

\* The cue lines a track should expand to: for a cue from S to E of N words, the
\* i-th word (from 0) from S + i*(E-S)/N to (E-S)/N later, in milliseconds.
ExpectedTimingLines(track) ==
    LET word_start(c, i) == c.start + round_div(i * (c.end - c.start), c.words)
        RECURSIVE of(_)
        of(j) == IF j > Len(track) THEN << >>
                 ELSE [i \in 1..track[j].words |->
                          timing_line(word_start(track[j], i - 1),
                                      word_start(track[j], i - 1)
                                          + round_div(track[j].end - track[j].start, track[j].words))]
                      \o of(j + 1)
    IN  of(1)

\* The karaoke tags a track should expand to: round(((E-S)/N)*100) centiseconds
\* for each word of each cue.
ExpectedKaraokeTags(track) ==
    LET RECURSIVE of(_)
        of(j) == IF j > Len(track) THEN << >>
                 ELSE [i \in 1..track[j].words |->
                          << "{", "\\", "k" >>
                          \o str_of_int(round_div(track[j].end - track[j].start, track[j].words * 10))
                          \o << "}" >>]
                      \o of(j + 1)
    IN  of(1)

TimingLinesOf(text) == SelectSeq(split(text, NEWLINE), LAMBDA l : contains(l, ARROW))
KaraokeTagsOf(text) ==
    LET tagged == SelectSeq(split(text, NEWLINE), LAMBDA l : contains(l, << "{", "\\", "k" >>))
        tag(l) == LET from == CHOOSE i \in 1..Len(l) : startswith_at(l, i, << "{", "\\", "k" >>)
                      to == CHOOSE e \in from..Len(l) : l[e] = "}" /\ \A m \in from..(e - 1) : l[m] # "}"
                  IN  SubSeq(l, from, to)
    IN  [n \in 1..Len(tagged) |-> tag(tagged[n])]

ExpanderCalled == call.fn = "process_subtitle_content" /\ call.one_word_highlight

\* C11: timing expansion correctness. With word highlight on, a payload whose
\* cues all have at least one word is expanded without an error: each cue from S
\* to E of N words becomes N cues, the i-th from S + i*(E-S)/N to (E-S)/N later,
\* each with the karaoke parameter round(((E-S)/N)*100); the cue 00:00:01,000 -->
\* 00:00:03,000 "a b" gives 00:00:01,000 --> 00:00:02,000 and 00:00:02,000 -->
\* 00:00:03,000, both with parameter 100.
C11_TimingExpansion ==
    \A n \in 1..Len(results) :
        ExpanderCalled /\ (\A j \in 1..Len(call.track) : call.track[j].words >= 1) =>
            /\ results[n].raised = ""
            /\ TimingLinesOf(results[n].value) = ExpectedTimingLines(call.track)
            /\ KaraokeTagsOf(results[n].value) = ExpectedKaraokeTags(call.track)

\* C12: with word highlight on, a payload with a cue of zero words is expanded
\* without an error (no division by zero, no other exception): the cue is dropped
\* or passed through, and the other cues are expanded as they would be without it.
C12_ZeroWordCue ==
    \A n \in 1..Len(results) :
        ExpanderCalled /\ (\E j \in 1..Len(call.track) : call.track[j].words = 0) =>
            /\ results[n].raised = ""
            /\ KaraokeTagsOf(results[n].value) = ExpectedKaraokeTags(call.track)

\* The two option lists hold the same name/value pairs, each name once.
SamePairs(a, b) ==
    /\ { a[i] : i \in 1..Len(a) } = { b[i] : i \in 1..Len(b) }
    /\ \A i \in 1..Len(a) : \A j \in 1..Len(a) : a[i].option = a[j].option => i = j

\* C13: fingerprint determinism. Two jobs with the same source reference, payload
\* and dialect whose option lists hold the same name/value pairs (each name once),
\* in whatever order, get the same digest from get_job_hash applied to their
\* converted options.
C13_FingerprintDeterminism ==
    call.fn = "get_job_hash" /\ Len(results) = 2
    /\ SamePairs(call.jobs[1].options, call.jobs[2].options)
        => results[1] = results[2]

\* Both fingerprints are taken of option lists with the same three pairs in
\* different orders.
C13_Witness ==
    /\ call.fn = "get_job_hash" /\ Len(results) = 2
    /\ SamePairs(call.jobs[1].options, call.jobs[2].options)
    /\ Len(call.jobs[1].options) = 3
    /\ call.jobs[1].options # call.jobs[2].options
    /\ results[1] = results[2]

\* The exception a failed statement raises.
ExceptionOf(op) ==
    CASE op = "validate" -> "ValueError"
      [] op = "load" -> "JSONDecodeError"
      [] op = "download" -> "DownloadError"
      [] op = "fetch" -> "RequestException"
      [] op = "subtitle" -> "ValueError"
      [] op \in {"probe", "render"} -> "ffmpeg.Error"
      [] op = "upload" -> "StorageError"
      [] op \in {"rm_video", "rm_srt", "rm_output"} -> "FileNotFoundError"
      [] op = "cache_open" -> "OSError"

\* C14: every error raised inside process_captioning (validation, retrieval,
\* renderer, storage, unexpected) is propagated to the caller: a call in which a
\* statement failed has raised that statement's exception and returned nothing,
\* and a call that returned had no failed statement (a lookup that finds no
\* entry is no failure).
C14_ErrorsPropagated ==
    \A k \in Jobs :
        LET st == calls[k].steps
            failed(n) == ~st[n].ok /\ st[n].op # "lookup"
        IN  /\ \A n \in 1..Len(st) :
                  failed(n) =>
                      /\ pc[k] = "raised"
                      /\ calls[k].err = ExceptionOf(st[n].op)
                      /\ calls[k].ret = None
            /\ pc[k] = "returned" => calls[k].err = ""
            /\ pc[k] = "raised" =>
                  (\E n \in 1..Len(st) : failed(n)) /\ calls[k].ret = None
            /\ map_success => map_value[k] = calls[k].ret

\* A call has raised the storage error of its upload while another has returned.
C14_Witness ==
    \E k \in Jobs : \E m \in Jobs :
        /\ pc[k] = "raised" /\ Failed(k, "upload") /\ calls[k].err = "StorageError"
        /\ pc[m] = "returned"

\* The statements of process_captioning in the order of the code.
PipelineSteps ==
    {"download", "fetch", "subtitle", "probe", "render", "upload",
     "rm_video", "rm_srt", "rm_output", "cache_open", "cache_dump"}

Rank ==
    [validate |-> 1, lookup |-> 2, load |-> 3, download |-> 4, fetch |-> 5,
     subtitle |-> 6, probe |-> 7, render |-> 8, upload |-> 9, rm_video |-> 10,
     rm_srt |-> 11, rm_output |-> 12, cache_open |-> 13, cache_dump |-> 14]

\* << a, ok, b >>: statement b may run directly after statement a has ended
\* with ok. The download follows the lookup that found no entry; the fetch is
\* there for a remote payload only.
DirectlyAfter ==
    { << "validate", TRUE, "lookup" >>, << "lookup", TRUE, "load" >>,
      << "lookup", FALSE, "download" >>,
      << "download", TRUE, "fetch" >>, << "download", TRUE, "subtitle" >>,
      << "fetch", TRUE, "subtitle" >>, << "subtitle", TRUE, "probe" >>,
      << "probe", TRUE, "render" >>, << "render", TRUE, "upload" >>,
      << "upload", TRUE, "rm_video" >>, << "rm_video", TRUE, "rm_srt" >>,
      << "rm_srt", TRUE, "rm_output" >>, << "rm_output", TRUE, "cache_open" >>,
      << "cache_open", TRUE, "cache_dump" >> }

\* C16: pipeline ordering on a cache miss. Within one call the statements run in
\* the order download, subtitle staging, probe, render, upload, removal of the
\* staging files, cache write: each one directly after the one before it has
\* succeeded (the download after the lookup that found no entry), so nothing
\* runs after a failure; the places of the statements in the code only go up, so
\* no statement, and no collaborator, runs twice; no file is removed before the
\* upload.
C16_PipelineOrdering ==
    \A k \in Jobs :
        LET st == calls[k].steps
        IN  /\ Len(st) > 0 => st[1].op = "validate"
            /\ \A n \in 2..Len(st) :
                  /\ << st[n - 1].op, st[n - 1].ok, st[n].op >> \in DirectlyAfter
                  /\ Rank[st[n - 1].op] < Rank[st[n].op]
                  /\ st[n].op = "rm_video" =>
                        \E i \in 1..(n - 1) : st[i].op = "upload"

\* A call has gone through the whole pipeline, the fetch of a remote payload included.
C16_Witness ==
    \E k \in Jobs :
        /\ pc[k] = "returned"
        /\ \A op \in PipelineSteps : Succeeded(k, op)

\* Job k's call has staged its subtitle file: lines 219-225 come next.
ReachedFontResolution(k) == Succeeded(k, "subtitle")

\* C19: in every call that reaches font resolution the requested font is a key
\* of FONT_PATHS: the font file is the requested font's, and the branch that falls
\* back to Arial with a warning is not taken.
C19_FontFallbackNeverTaken ==
    \A k \in Jobs :
        ReachedFontResolution(k) =>
            /\ ~JobFont(k).warning
            /\ StrV(JobFont(k).font) = JobOptions(k).at["font_name"]

C19_Witness ==
    \E k \in Jobs :
        /\ ReachedFontResolution(k) /\ pc[k] = "probe"
        /\ JobFont(k) = [font |-> "Arial", warning |-> FALSE]

\* The place of an option among the values of the style line, and the text of its
\* documented default: font Arial, size 24, primary colour opaque white, outline
\* and back colour opaque black, outline 1, shadow 0, alignment 2, margins 10,
\* encoding 1.
DocumentedDefaults ==
    { << "font_name", 2, "Arial" >>, << "font_size", 3, "24" >>,
      << "primary_color", 4, "&H00FFFFFF" >>, << "outline_color", 5, "&H00000000" >>,
      << "back_color", 6, "&H00000000" >>, << "outline", 16, "1" >>, << "shadow", 17, "0" >>,
      << "alignment", 18, "2" >>, << "margin_l", 19, "10" >>, << "margin_r", 20, "10" >>,
      << "margin_v", 21, "10" >>, << "encoding", 22, "1" >> }

\* The text of the i-th value of a style line.
StyleField(line, i) == line[2 * i]

\* C15: style compiler determinism and defaults. Two calls of generate_style_line
\* with the same options return the same line, and each optional key that the
\* options leave out has its documented default in the line.
C15_StyleLineDefaults ==
    call.fn = "generate_style_line" =>
        /\ Len(results) = 2 => results[1] = results[2]
        /\ \A n \in 1..Len(results) :
              /\ Len(results[n]) = 46
              /\ results[n][1] = "Style: "
              /\ \A d \in DocumentedDefaults :
                    ~dict_has(call.options, d[1]) => StyleField(results[n], d[2]) = d[3]

\* The line was compiled twice from options that give a font size and nothing
\* else: the alignment in it is 2.
C15_Witness ==
    /\ call.fn = "generate_style_line" /\ Len(results) = 2
    /\ call.options.keys = << "font_size" >>
    /\ StyleField(results[2], 3) = "32"
    /\ StyleField(results[2], 18) = "2"

\* C17: whenever word highlight is requested, what is staged is what the timing
\* expander makes of the payload (after the style header, for ASS), for every
\* dialect and for inline and remote payloads alike: the expander's text when it
\* returns one, and nothing when it raises; without word highlight the staged
\* text is the payload (after the style header, for ASS) unchanged.
C17_StagedContentExpanded ==
    \A n \in 1..Len(results) :
        call.fn = "subtitle_content" =>
            LET whole == caption_style(call.caption_type, call.options) \o call.text
            IN  IF truthy(dict_get(call.options, "one_word_highlight", BoolV(FALSE)))
                THEN results[n] = process_subtitle_content(whole, TRUE)
                ELSE results[n] = Returned(whole)

\* C18: progress counter consistency. Whatever the interleaving of update and
\* get_progress in different threads, the value a get_progress is about to return
\* is (f / total_frames) * 100 for the frame f of the last update that has
\* returned (0 before any), and, the frame counts of the callback never going
\* down, a value returned is never below the one returned before it.
C18_ProgressConsistent ==
    total_frames > 0 =>
        /\ \A t \in DOMAIN thread :
              thread[t].pc = "get_evaluated" =>
                  thread[t].value = Returned([num |-> completed * 100, den |-> total_frames])
        /\ Len(reading) = 2 =>
              reading[1].value.num * reading[2].value.den
                  <= reading[2].value.num * reading[1].value.den

\* A reporting thread is about to return 100, the progress of the last update
\* that has returned, after 0 and 50 were returned.
C18_Witness ==
    /\ total_frames = 2
    /\ Len(reading) = 2
    /\ reading[1] = Returned([num |-> 0, den |-> 2])
    /\ reading[2] = Returned([num |-> 100, den |-> 2])
    /\ completed = 2
    /\ \E t \in DOMAIN thread :
          t # Renderer /\ thread[t].pc = "get_evaluated"
          /\ thread[t].value = Returned([num |-> 200, den |-> 2])

====
